---- MODULE Spec2Model ----
(***************************************************************************)
(* Document classification and ingestion state machine of rag_chat_app:    *)
(* the metadata stores (JSON and SQLite), the classifier, the ingestion    *)
(* service and the Chroma vector store, as one state machine.              *)
(***************************************************************************)
EXTENDS Integers, Sequences, FiniteSets, TLC

\* ------------------------------------------------------------------ bounds
MaxAttempts == 2

MaxBatches == 2

\* the clock takes the values 1 .. MaxNow
MaxNow == 2

\* number of calls made on the metadata store directly
MaxOps == 3

\* default batch_size of ChromaVectorStore.add_documents
BatchSize == 100

\* the documents of the folder: path 1 is a PDF, path 2 a text file
Paths == {1, 2}

\* modification times: an earlier and a later one, which give the three
\* outcomes (older, equal, newer) of the one comparison the classifier makes
Times == {1, 2}

\* numbers of chunks a document can split into: none, one batch, ..., MaxBatches batches
ChunkCounts == {0} \cup {(b - 1) * BatchSize + 1 : b \in 1 .. MaxBatches}

\* ----------------------------------------------------------- value encoding
\* Python values whose type matters are pairs <<type, value>>.
Str(s) == <<"str", s>>

\* a member of the VectorStatus enum (a plain Enum, not a str)
VectorStatus(s) == <<"VectorStatus", s>>

NoneVal == <<"NoneType", "">>

ValueOf(e) == e[2]

PENDING == "pending"

PROCESSING == "processing"

COMPLETED == "completed"

FAILED == "failed"

SKIPPED == "skipped"

\* datetime.isoformat(): defined on datetime objects, yields a str
isoformat(dt) == <<"str", dt[2]>>

\* datetime.fromisoformat(x): TypeError unless x is a str
fromisoformat(x) ==
    IF x[1] = "str" THEN [ok |-> TRUE, val |-> <<"datetime", x[2]>>]
                    ELSE [ok |-> FALSE, val |-> x]

\* VectorStatus.from_string
from_string(s) == VectorStatus(s)

\* extension of the file at a path (odd paths are PDFs, even ones text files)
Ext(p) == IF p % 2 = 1 THEN ".pdf" ELSE ".txt"

\* the parser lists the service is built with: PdfParser alone, or PdfParser
\* and TxtParser (each parser is its supported_extensions)
ParserConfigs == { <<{".pdf"}>>, <<{".pdf"}, {".txt", ".log"}>> }

\* ------------------------------------------------------------------- state
VARIABLES
    backend,      \* "json" or "sqlite": the MetadataStore implementation in use
    parsers,      \* ParserProvider._parsers
    files,        \* the document folder: path -> mtime, 0 when the file does not exist
    store,        \* metadata store contents: key -> stored row / JSON item
    vectors,      \* vector store contents: path -> the vectors stored for it
    attempts,     \* number of _process_single_document calls started so far
    pc,           \* position of the running call
    call,         \* entry point of the running call
    cls,          \* documents_status_map of the running call (result of the classifier)
    queue,        \* pending_documents not yet processed
    cur,          \* locals of _process_single_document
    ppd,          \* what process_pending_documents loaded, once it has run in this call
    now,          \* the clock read by datetime.now() and CURRENT_TIMESTAMP
    op,           \* the last call made on the metadata store directly, and its outcome
    passes,       \* the store call each of two ingestion passes is making on one store
    twin          \* a SQLite store that is given the same calls as a JSON store

vars == <<backend, parsers, files, store, vectors, attempts, pc, call, cls, queue, cur, ppd, now, op, passes, twin>>

\* --------------------------------------------------------- parser provider
\* Parser.is_applieble
is_applieble(parser, ext) == ext \in parser

\* ParserProvider.get_parser: index of the first applicable parser, 0 for None
get_parser(ps, ext) ==
    IF \E i \in 1 .. Len(ps) : is_applieble(ps[i], ext)
    THEN CHOOSE i \in 1 .. Len(ps) :
            /\ is_applieble(ps[i], ext)
            /\ \A j \in 1 .. (i - 1) : ~is_applieble(ps[j], ext)
    ELSE 0

\* ParserProvider.get_suported_extentions
get_suported_extentions(ps) == UNION {ps[i] : i \in 1 .. Len(ps)}

\* --------------------------------------------------------- document source
\* DocumentMetadata built by LocalfileSource.list_documents for one file
SourceDoc(p, fs) ==
    [source_path |-> p, file_extension |-> Ext(p),
     file_hash |-> fs[p], file_size |-> fs[p],
     last_modified |-> <<"datetime", fs[p]>>,
     chunk_count |-> 0, vector_status |-> VectorStatus(PENDING)]

\* LocalfileSource.list_documents / _get_files
list_documents(fs, exts) ==
    {SourceDoc(p, fs) : p \in {q \in Paths : fs[q] # 0 /\ Ext(q) \in exts}}

\* ---------------------------------------------------------- metadata store
\* JsonMetadataStore._to_dict
_to_dict(doc) ==
    [file_hash |-> doc.file_hash,
     file_extension |-> doc.file_extension,
     file_size |-> doc.file_size,
     last_modified |-> isoformat(doc.last_modified),
     chunk_count |-> doc.chunk_count,
     vector_status |-> ValueOf(doc.vector_status),
     vector_error |-> "",
     updated_at |-> now,
     is_deleted |-> 0]

\* JsonMetadataStore._from_dict and the row conversion of SQLiteMetadataStore.load_documents_metadata
_from_dict(k, item) ==
    [source_path |-> k, file_extension |-> item.file_extension,
     file_hash |-> item.file_hash, file_size |-> item.file_size,
     last_modified |-> fromisoformat(item.last_modified).val,
     chunk_count |-> item.chunk_count,
     vector_status |-> from_string(item.vector_status)]

\* the row written by the INSERT ... ON CONFLICT DO UPDATE of SQLiteMetadataStore
SqliteUpsertRow(st, doc) ==
    IF doc.source_path \in DOMAIN st
    THEN [st[doc.source_path] EXCEPT
            !.file_hash = doc.file_hash,
            !.file_size = doc.file_size,
            !.last_modified = isoformat(doc.last_modified),
            !.chunk_count = 0,
            !.updated_at = now,
            !.vector_status = ValueOf(doc.vector_status),
            !.is_deleted = 0]
    ELSE [file_hash |-> doc.file_hash,
          file_extension |-> doc.file_extension,
          file_size |-> doc.file_size,
          last_modified |-> isoformat(doc.last_modified),
          chunk_count |-> doc.chunk_count,
          vector_status |-> ValueOf(doc.vector_status),
          vector_error |-> "",
          updated_at |-> now,
          is_deleted |-> 0]

\* save_documents_metadata of either store, for a batch of documents with distinct keys
save_documents_metadata(be, st, docs) ==
    LET keys == {d.source_path : d \in docs}
        docOf(k) == CHOOSE d \in docs : d.source_path = k
    IN [k \in DOMAIN st \cup keys |->
          IF k \in keys
          THEN IF be = "json" THEN _to_dict(docOf(k)) ELSE SqliteUpsertRow(st, docOf(k))
          ELSE st[k]]

\* delete_documents_metadata of either store (soft delete)
delete_documents_metadata(st, keys) ==
    [k \in DOMAIN st |->
        IF k \in keys THEN [st[k] EXCEPT !.is_deleted = 1, !.updated_at = now] ELSE st[k]]

\* the truth value Python gives a filter argument: None and "" count as not given
Falsy(x) == x = NoneVal \/ x = Str("")

\* DocumentSourceType.LOCAL_FILE.value, the source_type of every record
LOCAL_FILE == "local_file"

\* the vector_status test of JsonMetadataStore.load_documents_metadata
JsonStatusMatches(item, vs) == Falsy(vs) \/ Str(item.vector_status) = vs

\* SQLite can bind None and str parameters only
SqliteCanBind(vs) == vs[1] \in {"NoneType", "str"}

\* the vector_status condition built by SQLiteMetadataStore._build_filter_conditions
SqliteStatusMatches(item, vs) == Falsy(vs) \/ Str(item.vector_status) = vs

\* load_documents_metadata with the vector_status filter left out
load_AnyStatus(be, st, vs, exts, stype) ==
    [raised |-> FALSE,
     docs |-> {_from_dict(k, st[k]) :
                 k \in {j \in DOMAIN st :
                          /\ st[j].is_deleted = 0
                          /\ (exts = {} \/ st[j].file_extension \in exts)}}]

\* load_documents_metadata of either store; exts = {} stands for
\* supported_extensions None or [], which the code treats alike
load_documents_metadata(be, st, vs, exts, stype) ==
    LET match(k) ==
            /\ st[k].is_deleted = 0
            /\ IF be = "json" THEN JsonStatusMatches(st[k], vs) ELSE SqliteStatusMatches(st[k], vs)
            /\ (Falsy(stype) \/ Str(LOCAL_FILE) = stype)
            /\ (exts = {} \/ st[k].file_extension \in exts)
    IN IF be = "sqlite" /\ ~SqliteCanBind(vs)
       THEN [raised |-> TRUE, docs |-> {}]
       ELSE [raised |-> FALSE,
             docs |-> {_from_dict(k, st[k]) : k \in {j \in DOMAIN st : match(j)}}]

\* update_document_processing_status with the chunk_count never written
update_status_NoCount(be, st, k, status, err, cc) ==
    IF k \notin DOMAIN st THEN st
    ELSE [st EXCEPT ![k] = [@ EXCEPT !.vector_status = status, !.vector_error = err,
                                   !.updated_at = now]]

\* update_document_processing_status with the error text dropped
update_status_NoError(be, st, k, status, err, cc) ==
    IF k \notin DOMAIN st THEN st
    ELSE [st EXCEPT ![k] = [@ EXCEPT !.vector_status = status, !.vector_error = "",
                                   !.updated_at = now]]

\* update_document_processing_status writing the status to every record
update_status_AllRecords(be, st, k, status, err, cc) ==
    [j \in DOMAIN st |-> [st[j] EXCEPT !.vector_status = status, !.vector_error = err,
                                       !.updated_at = now]]

\* update_document_processing_status reviving the record it updates
update_status_Revives(be, st, k, status, err, cc) ==
    IF k \notin DOMAIN st THEN st
    ELSE [st EXCEPT ![k] = [@ EXCEPT !.vector_status = status, !.vector_error = err,
                                   !.chunk_count = IF cc > 0 THEN cc ELSE @,
                                   !.updated_at = now, !.is_deleted = 0]]

\* update_document_processing_status writing an item for a key that has none
update_status_Creates(be, st, k, status, err, cc) ==
    [j \in DOMAIN st \cup {k} |->
        IF j # k THEN st[j]
        ELSE IF k \in DOMAIN st
             THEN [st[k] EXCEPT !.vector_status = status, !.vector_error = err,
                                !.chunk_count = IF cc > 0 THEN cc ELSE @,
                                !.updated_at = now]
             ELSE [file_hash |-> 0, file_extension |-> Ext(k), file_size |-> 0,
                   last_modified |-> Str(0), chunk_count |-> 0,
                   vector_status |-> status, vector_error |-> err,
                   updated_at |-> now, is_deleted |-> 0]]

\* update_document_processing_status of either store; cc = -1 stands for chunk_count=None
update_document_processing_status(be, st, k, status, err, cc) ==
    IF k \notin DOMAIN st THEN st
    ELSE LET setcc == IF be = "json" THEN cc # -1 ELSE cc # -1 /\ cc # 0
         IN [st EXCEPT ![k] = [@ EXCEPT !.vector_status = status,
                                        !.vector_error = err,
                                        !.chunk_count = IF setcc THEN cc ELSE @,
                                        !.updated_at = now]]

\* --------------------------------------------------------------- classifier
\* IsUpdated with the datetimes compared directly, and >= in place of >
IsUpdated_OrEqual(source_doc, db_doc) ==
    [raised |-> FALSE, updated |-> source_doc.last_modified[2] >= db_doc.last_modified[2]]

\* the comparison of files_classifier.classifier for one shared path
IsUpdated(source_doc, db_doc) ==
    LET stored == fromisoformat(db_doc.last_modified)
    IN [raised |-> ~stored.ok,
        updated |-> stored.ok /\ source_doc.last_modified[2] > stored.val[2]]

\* files_classifier.classifier, on the source listing and the loaded records:
\* the four lists of documents, or raised when a comparison raises (source and
\* db keep the key sets of the two inputs)
classifier(documents, exist_documents) ==
    LET source_path == {d.source_path : d \in documents}
        db_path == {d.source_path : d \in exist_documents}
        source_map(k) == CHOOSE d \in documents : d.source_path = k
        db_map(k) == CHOOSE d \in exist_documents : d.source_path = k
        both == source_path \cap db_path
        cmp(k) == IsUpdated(source_map(k), db_map(k))
    IN IF \E k \in both : cmp(k).raised
       THEN [raised |-> TRUE, new |-> {}, updated |-> {}, unchanged |-> {}, deleted |-> {},
             source |-> documents, db |-> exist_documents]
       ELSE [raised |-> FALSE,
             new |-> {source_map(k) : k \in source_path \ db_path},
             updated |-> {source_map(k) : k \in {j \in both : cmp(j).updated}},
             unchanged |-> {source_map(k) : k \in {j \in both : ~cmp(j).updated}},
             deleted |-> {db_map(k) : k \in db_path \ source_path},
             source |-> documents, db |-> exist_documents]

\* ------------------------------------------------------------- vector store
\* The vectors stored for one source path: batches are the batches (by number)
\* stored by the latest add_documents call for the path, and stale tells
\* whether vectors of an earlier add_documents call are stored too.
NoVectors == [stale |-> FALSE, batches |-> {}]

\* number of batches add_documents splits n chunks into
BatchCount(n) == (n + BatchSize - 1) \div BatchSize

\* ChromaVectorStore.document_exists: a failing search is reported as "does not exist"
document_exists(vs, p, searchOk) ==
    IF searchOk THEN vs[p].stale \/ vs[p].batches # {} ELSE FALSE

\* ChromaVectorStore.delete_vectors_by_source, when it succeeds
delete_vectors_by_source(vs, p) == [vs EXCEPT ![p] = NoVectors]

\* one iteration of the loop of ChromaVectorStore.add_documents, when it succeeds
add_batch(vs, p, b) ==
    IF b = 1
    THEN [vs EXCEPT ![p] = [stale |-> @.stale \/ @.batches # {}, batches |-> {1}]]
    ELSE [vs EXCEPT ![p] = [@ EXCEPT !.batches = @ \cup {b}]]

\* ------------------------------------------------------------ initial state
NoCls == [raised |-> FALSE, new |-> {}, updated |-> {}, unchanged |-> {}, deleted |-> {},
          source |-> {}, db |-> {}, reappeared |-> {}]

NoCur == [path |-> 0, n |-> 0, batch |-> 0, calls |-> <<>>]

NoPpd == [ran |-> FALSE, raised |-> FALSE, start |-> {}, loaded |-> {}]

\* no direct call has been made on the metadata store
NoOp == [n |-> 0, name |-> "none", raised |-> FALSE, keys |-> {}, docs |-> {},
         status |-> "", err |-> "", cc |-> -1,
         vs |-> NoneVal, exts |-> {}, stype |-> NoneVal, result |-> {}]

\* the ingestion passes sharing one store: no pass is inside a store call
NoPasses == [i \in {1, 2} |-> [pc |-> "idle", n |-> 0, call |-> NoOp, data |-> <<>>,
                               stale |-> FALSE, lost |-> FALSE]]

Init ==
    /\ backend \in {"json", "sqlite"}
    /\ parsers \in ParserConfigs
    /\ files = [p \in Paths |-> 0]
    /\ store = <<>>
    /\ vectors = [p \in Paths |-> NoVectors]
    /\ attempts = 0
    /\ pc = "idle"
    /\ call = "none"
    /\ cls = NoCls
    /\ queue = <<>>
    /\ cur = NoCur
    /\ ppd = NoPpd
    /\ now = 1
    /\ op = NoOp
    /\ passes = NoPasses
    /\ twin = <<>>

\* -------------------------------------------------------------- environment
\* a file is created or modified in the document folder
TouchFile ==
    \E p \in Paths, t \in Times :
        /\ pc = "idle"
        /\ files[p] # t
        /\ files' = [files EXCEPT ![p] = t]
        /\ UNCHANGED <<passes, twin, now, op, backend, parsers, store, vectors, attempts, pc, call, cls, queue, cur, ppd>>

\* a file is removed from the document folder
RemoveFile ==
    \E p \in Paths :
        /\ pc = "idle"
        /\ files[p] # 0
        /\ files' = [files EXCEPT ![p] = 0]
        /\ UNCHANGED <<passes, twin, now, op, backend, parsers, store, vectors, attempts, pc, call, cls, queue, cur, ppd>>

\* the process dies in the middle of a call; its locals are gone
Crash ==
    /\ pc \notin {"idle", "done", "raised"}
    /\ pc' = "idle"
    /\ call' = "none"
    /\ cls' = NoCls
    /\ queue' = <<>>
    /\ cur' = NoCur
    /\ ppd' = NoPpd
    /\ UNCHANGED <<passes, twin, now, op, backend, parsers, files, store, vectors, attempts>>

\* the call is over (it returned or raised); its locals are gone
Return ==
    /\ pc \in {"done", "raised"}
    /\ pc' = "idle"
    /\ call' = "none"
    /\ cls' = NoCls
    /\ queue' = <<>>
    /\ cur' = NoCur
    /\ ppd' = NoPpd
    /\ UNCHANGED <<passes, twin, now, op, backend, parsers, files, store, vectors, attempts>>

\* ------------------------------------------------------- ingestion service
\* run_full_ingestion, first step: discover_documents
DiscoverDocuments ==
    /\ pc = "idle"
    /\ LET exts == get_suported_extentions(parsers)
           documents == list_documents(files, exts)
           loaded == load_documents_metadata(backend, store, NoneVal, exts, NoneVal)
           result == classifier(documents, loaded.docs)
           \* kept for the record: the listed documents whose record is soft-deleted
           reappeared == {k \in {d.source_path : d \in documents} \cap DOMAIN store :
                            store[k].is_deleted = 1}
       IN /\ cls' = [reappeared |-> reappeared] @@ result
          /\ pc' = IF loaded.raised \/ result.raised THEN "raised" ELSE "discovered"
    /\ call' = "run_full_ingestion"
    /\ UNCHANGED <<passes, twin, now, op, backend, parsers, files, store, vectors, attempts, queue, cur, ppd>>

\* the store after update_metadata(documents_status_map)
update_metadata(be, st, status_map) ==
    LET documents_to_save == status_map.new \cup status_map.updated
        saved == IF documents_to_save # {}
                 THEN save_documents_metadata(be, st, documents_to_save)
                 ELSE st
        documents_to_delete == {d.source_path : d \in status_map.deleted}
    IN IF documents_to_delete # {}
       THEN delete_documents_metadata(saved, documents_to_delete)
       ELSE saved

\* update_metadata deleting the vectors of the documents it soft-deletes
UpdateMetadata_DropsVectors ==
    /\ pc = "discovered"
    /\ store' = update_metadata(backend, store, cls)
    /\ vectors' = [k \in DOMAIN vectors |->
                      IF k \in {d.source_path : d \in cls.deleted} THEN NoVectors ELSE vectors[k]]
    /\ pc' = "updated"
    /\ UNCHANGED <<passes, twin, now, op, backend, parsers, files, attempts, call, cls, queue, cur, ppd>>

\* run_full_ingestion, second step: update_metadata
UpdateMetadata ==
    /\ pc = "discovered"
    /\ store' = update_metadata(backend, store, cls)
    /\ pc' = "updated"
    /\ UNCHANGED <<passes, twin, now, op, backend, parsers, files, vectors, attempts, call, cls, queue, cur, ppd>>

\* the argument process_pending_documents passes as vector_status
PendingFilter == VectorStatus(PENDING)

\* the live PENDING records of a store
LivePending(st) == {k \in DOMAIN st : st[k].is_deleted = 0 /\ st[k].vector_status = PENDING}

\* the orders in which a set of documents can be listed
Orders(S) == {q \in [1 .. Cardinality(S) -> S] : \A i, j \in DOMAIN q : q[i] = q[j] => i = j}

\* run_full_ingestion, third step: process_pending_documents up to its loop
ProcessPendingDocuments ==
    /\ pc = "updated"
    /\ LET loaded == load_documents_metadata(backend, store, PendingFilter, {}, NoneVal)
           keys == {d.source_path : d \in loaded.docs}
       IN /\ ppd' = [ran |-> TRUE, raised |-> loaded.raised,
                     start |-> LivePending(store), loaded |-> keys]
          /\ queue' \in Orders(keys)
          /\ pc' = IF loaded.raised THEN "raised"
                   ELSE IF keys = {} THEN "done" ELSE "p_begin"
    /\ UNCHANGED <<passes, twin, now, op, backend, parsers, files, store, vectors, attempts, call, cls, cur>>

\* _process_single_document called on one document that
\* load_documents_metadata(vector_status="pending") returns
ProcessSingleDocument ==
    /\ pc = "idle"
    /\ \E d \in load_documents_metadata(backend, store, Str(PENDING), {}, NoneVal).docs :
          queue' = <<d.source_path>>
    /\ call' = "_process_single_document"
    /\ pc' = "p_begin"
    /\ UNCHANGED <<passes, twin, now, op, backend, parsers, files, store, vectors, attempts, cls, cur, ppd>>

\* MarkProcessing with the status update writing PENDING again
MarkProcessing_Pending(be, st, k) == update_document_processing_status(be, st, k, PENDING, "", -1)

\* the status written when a document's processing starts
MarkProcessing(be, st, k) == update_document_processing_status(be, st, k, PROCESSING, "", -1)

\* cur after one more call has been made
Called(c) == [cur EXCEPT !.calls = Append(@, c)]

\* the loop of process_pending_documents moves to the next document
NextDocument ==
    /\ queue' = Tail(queue)
    /\ pc' = IF Tail(queue) = <<>> THEN "done" ELSE "p_begin"

\* FailDocumentOf with the number of chunks recorded by the FAILED status update
FailDocumentOf_SetsCount(doc, err, cs) ==
    /\ store' = update_document_processing_status(backend, store, doc.path, FAILED, err, doc.n)
    /\ cur' = [doc EXCEPT !.calls = @ \o cs \o <<"status:failed">>]
    /\ NextDocument

\* the FAILED status update made by the except clause of
\* _process_single_document, after the calls cs of the document whose locals
\* are doc: either the store writes it and _process_single_document returns,
\* or the store raises and the exception leaves process_pending_documents
FailDocumentOf(doc, err, cs) ==
    \E writeOk \in BOOLEAN :
       IF writeOk
       THEN /\ store' = update_document_processing_status(backend, store, doc.path, FAILED, err, -1)
            /\ cur' = [doc EXCEPT !.calls = @ \o cs \o <<"status:failed">>]
            /\ NextDocument
       ELSE /\ store' = store
            /\ cur' = [doc EXCEPT !.calls = @ \o cs \o <<"status:failed:raised">>]
            /\ queue' = <<>>
            /\ pc' = "raised"

\* the except clause of _process_single_document, for the document being processed
FailDocument(err, cs) == FailDocumentOf(cur, err, cs)

\* a FAILED status update followed by return, inside the try block: when the
\* store raises, the except clause makes the FAILED status update again, with
\* the store's exception as the error
EarlyReturn(err, cs) ==
    \E writeOk \in BOOLEAN :
       IF writeOk
       THEN /\ store' = update_document_processing_status(backend, store, cur.path, FAILED, err, -1)
            /\ cur' = [cur EXCEPT !.calls = @ \o cs \o <<"status:failed">>]
            /\ NextDocument
       ELSE FailDocument("Failed to process: store error", cs \o <<"status:failed:raised">>)

\* _process_single_document: the PROCESSING status update; when the store
\* raises, the except clause around it makes the FAILED status update
PS_Begin ==
    /\ pc = "p_begin"
    /\ queue # <<>>
    /\ attempts < MaxAttempts
    /\ attempts' = attempts + 1
    /\ LET p == Head(queue)
       IN \E writeOk \in BOOLEAN :
             IF writeOk
             THEN /\ store' = MarkProcessing(backend, store, p)
                  /\ cur' = [path |-> p, n |-> 0, batch |-> 0,
                             calls |-> <<"status:processing">>]
                  /\ pc' = "p_extract"
                  /\ UNCHANGED queue
             ELSE FailDocumentOf([path |-> p, n |-> 0, batch |-> 0, calls |-> <<>>],
                                 "Failed to process: store error",
                                 <<"status:processing:raised">>)
    /\ UNCHANGED <<passes, twin, now, op, backend, parsers, files, vectors, call, cls, ppd>>

\* _process_single_document up to the vector store: the file check, the parser
\* lookup, parser.parse (which raises on a missing or corrupt file),
\* chunker.chunk_documents and the empty-chunks check
PS_Extract ==
    /\ pc = "p_extract"
    /\ IF files[cur.path] = 0
       THEN EarlyReturn("File does not exist", <<"exists">>)
       ELSE IF get_parser(parsers, Ext(cur.path)) = 0
       THEN EarlyReturn("No parser available", <<"exists", "get_parser">>)
       ELSE \E parseOk \in BOOLEAN, n \in ChunkCounts :
               IF ~parseOk
               THEN FailDocument("Failed to process: parse error",
                                 <<"exists", "get_parser", "parse">>)
               ELSE IF n = 0
               THEN EarlyReturn("contains no extractable text",
                                <<"exists", "get_parser", "parse", "chunk">>)
               ELSE /\ pc' = "p_replace"
                    /\ cur' = [cur EXCEPT !.n = n,
                                          !.calls = @ \o <<"exists", "get_parser", "parse", "chunk">>]
                    /\ UNCHANGED <<store, queue>>
    /\ UNCHANGED <<passes, twin, now, op, backend, parsers, files, vectors, attempts, call, cls, ppd>>

\* _process_single_document: document_exists and delete_vectors_by_source
PS_ReplaceExisting ==
    /\ pc = "p_replace"
    /\ \E searchOk \in BOOLEAN, deleteOk \in BOOLEAN :
          IF document_exists(vectors, cur.path, searchOk)
          THEN IF deleteOk
               THEN /\ vectors' = delete_vectors_by_source(vectors, cur.path)
                    /\ pc' = "p_add"
                    /\ cur' = [cur EXCEPT !.calls = @ \o <<"document_exists", "delete_vectors_by_source">>]
                    /\ UNCHANGED <<store, queue>>
               ELSE /\ FailDocument("Failed to process: Failed to delete vectors",
                                    <<"document_exists", "delete_vectors_by_source:raised">>)
                    /\ UNCHANGED vectors
          ELSE /\ pc' = "p_add"
               /\ cur' = Called(IF searchOk THEN "document_exists"
                                             ELSE "document_exists:search_raised")
               /\ UNCHANGED <<store, queue, vectors>>
    /\ UNCHANGED <<passes, twin, now, op, backend, parsers, files, attempts, call, cls, ppd>>

\* _process_single_document: one batch of vector_store.add_documents
PS_AddBatch ==
    /\ pc = "p_add"
    /\ \E ok \in BOOLEAN :
          IF ok
          THEN /\ vectors' = add_batch(vectors, cur.path, cur.batch + 1)
               /\ cur' = [Called("add_documents") EXCEPT !.batch = cur.batch + 1]
               /\ pc' = IF cur.batch + 1 = BatchCount(cur.n) THEN "p_complete" ELSE "p_add"
               /\ UNCHANGED <<store, queue>>
          ELSE /\ FailDocument("Failed to process: Failed to add documents",
                               <<"add_documents:raised">>)
               /\ UNCHANGED vectors
    /\ UNCHANGED <<passes, twin, now, op, backend, parsers, files, attempts, call, cls, ppd>>

\* _process_single_document: the COMPLETED status update; when the store
\* raises, the except clause around it makes the FAILED status update
PS_Complete ==
    /\ pc = "p_complete"
    /\ \E writeOk \in BOOLEAN :
          IF writeOk
          THEN /\ store' = update_document_processing_status(backend, store, cur.path,
                                                             COMPLETED, "", cur.n)
               /\ cur' = Called("status:completed")
               /\ NextDocument
          ELSE FailDocument("Failed to process: store error", <<"status:completed:raised">>)
    /\ UNCHANGED <<passes, twin, now, op, backend, parsers, files, vectors, attempts, call, cls, ppd>>

Next ==
    \/ TouchFile
    \/ RemoveFile
    \/ Crash
    \/ Return
    \/ DiscoverDocuments
    \/ UpdateMetadata
    \/ ProcessPendingDocuments
    \/ ProcessSingleDocument
    \/ PS_Begin
    \/ PS_Extract
    \/ PS_ReplaceExisting
    \/ PS_AddBatch
    \/ PS_Complete

Spec == Init /\ [][Next]_vars

\* the service is started again with another ENABLED_PARSERS setting
ReconfigureParsers ==
    /\ pc = "idle"
    /\ parsers' \in ParserConfigs \ {parsers}
    /\ UNCHANGED <<passes, twin, now, op, backend, files, store, vectors, attempts, pc, call, cls, queue, cur, ppd>>

\* the ingestion runs of a service whose parser list changes between calls
SpecReconfigured == Init /\ [][Next \/ ReconfigureParsers]_vars

\* ------------------------------------------- the metadata store called directly
\* the chunk counts the callers of the store pass in these calls
StoreChunkCounts == {0, 1}

\* the DocumentMetadata records handed to save_documents_metadata: records as
\* list_documents builds them, and records that carry a chunk count
StoreDocs ==
    {[SourceDoc(p, [q \in Paths |-> t]) EXCEPT !.chunk_count = c] :
        p \in Paths, t \in Times, c \in StoreChunkCounts}

\* the batches handed to save_documents_metadata: one document per key
StoreBatches ==
    UNION {{{f[p] : p \in S} : f \in {g \in [S -> StoreDocs] : \A q \in S : g[q].source_path = q}} :
              S \in (SUBSET Paths) \ {{}}}

\* the vector_status arguments of load_documents_metadata: none, a string, an enum member
StoreStatusFilters == {NoneVal, Str(COMPLETED), VectorStatus(PENDING)}

\* the source_type arguments of load_documents_metadata
StoreTypeFilters == {NoneVal, Str(LOCAL_FILE), Str("other")}

\* the supported_extensions arguments of load_documents_metadata
StoreExtFilters == {{}, {".pdf"}}

StoreInit ==
    /\ backend \in {"json", "sqlite"}
    /\ parsers = <<{".pdf"}>>
    /\ files = [p \in Paths |-> 0]
    /\ store = <<>>
    /\ vectors = [p \in Paths |-> NoVectors]
    /\ attempts = 0
    /\ pc = "idle"
    /\ call = "none"
    /\ cls = NoCls
    /\ queue = <<>>
    /\ cur = NoCur
    /\ ppd = NoPpd
    /\ now = 1
    /\ op = NoOp
    /\ passes = NoPasses
    /\ twin = <<>>

\* time passes between two calls
Tick ==
    /\ now < MaxNow
    /\ now' = now + 1
    /\ UNCHANGED <<passes, twin, op, backend, parsers, files, store, vectors, attempts, pc, call, cls, queue, cur, ppd>>

\* the contents of the store after a save_documents_metadata call that raises:
\* "record" when a record of the batch cannot be converted or bound,
\* "write" when the file or the database cannot be written
save_raises(be, st, fault) ==
    IF be = "json" /\ fault = "write" THEN {st, <<>>} ELSE {st}

\* the record of the n-th direct call
OpCall(name) == [NoOp EXCEPT !.n = op.n + 1, !.name = name]

\* a call of save_documents_metadata that returns
StoreSave ==
    \E docs \in StoreBatches :
        /\ op.n < MaxOps
        /\ store' = save_documents_metadata(backend, store, docs)
        /\ op' = [OpCall("save") EXCEPT !.docs = docs, !.keys = {d.source_path : d \in docs}]
        /\ UNCHANGED <<passes, twin, now, backend, parsers, files, vectors, attempts, pc, call, cls, queue, cur, ppd>>

\* a call of save_documents_metadata that raises
StoreSaveRaises ==
    \E fault \in {"record", "write"} :
        /\ op.n < MaxOps
        /\ store' \in save_raises(backend, store, fault)
        /\ op' = [OpCall("save") EXCEPT !.raised = TRUE, !.err = fault]
        /\ UNCHANGED <<passes, twin, now, backend, parsers, files, vectors, attempts, pc, call, cls, queue, cur, ppd>>

\* a call of delete_documents_metadata
StoreDelete ==
    \E keys \in (SUBSET Paths) \ {{}} :
        /\ op.n < MaxOps
        /\ store' = delete_documents_metadata(store, keys)
        /\ op' = [OpCall("delete") EXCEPT !.keys = keys]
        /\ UNCHANGED <<passes, twin, now, backend, parsers, files, vectors, attempts, pc, call, cls, queue, cur, ppd>>

\* a call of update_document_processing_status
StoreUpdateStatus ==
    \E k \in Paths, status \in {COMPLETED, FAILED}, cc \in {-1} \cup StoreChunkCounts :
      LET err == IF status = FAILED THEN "Failed to process" ELSE ""
      IN
        /\ op.n < MaxOps
        /\ store' = update_document_processing_status(backend, store, k, status, err, cc)
        /\ op' = [OpCall("update") EXCEPT !.keys = {k}, !.status = status,
                                          !.err = err, !.cc = cc]
        /\ UNCHANGED <<passes, twin, now, backend, parsers, files, vectors, attempts, pc, call, cls, queue, cur, ppd>>

\* a call of load_documents_metadata
StoreLoad ==
    \E vs \in StoreStatusFilters, exts \in StoreExtFilters, stype \in StoreTypeFilters :
        LET loaded == load_documents_metadata(backend, store, vs, exts, stype)
        IN /\ op.n < MaxOps
           /\ op' = [OpCall("load") EXCEPT !.raised = loaded.raised, !.vs = vs, !.exts = exts,
                                          !.stype = stype, !.result = loaded.docs]
           /\ UNCHANGED <<passes, twin, now, backend, parsers, files, store, vectors, attempts, pc, call, cls,
                          queue, cur, ppd>>

StoreNext ==
    \/ Tick
    \/ StoreSave
    \/ StoreSaveRaises
    \/ StoreDelete
    \/ StoreUpdateStatus
    \/ StoreLoad

\* any sequence of calls made on one metadata store
StoreSpec == StoreInit /\ [][StoreNext]_vars

\* --------------------------------------- two ingestion passes on one store
\* the store calls an ingestion pass makes: the upsert of one listed document
\* and the PROCESSING and COMPLETED status updates of _process_single_document
PassCalls ==
    {[NoOp EXCEPT !.name = "save", !.docs = {SourceDoc(p, [q \in Paths |-> t])}, !.keys = {p}] :
        p \in Paths, t \in Times}
    \cup {[NoOp EXCEPT !.name = "update", !.keys = {p}, !.status = PROCESSING] : p \in Paths}
    \cup {[NoOp EXCEPT !.name = "update", !.keys = {p}, !.status = COMPLETED, !.cc = 1] :
            p \in Paths}

\* number of store calls each of the two passes makes
MaxCalls == 2

\* what a store call writes, given the contents it has read
CallResult(be, st, c) ==
    IF c.name = "save"
    THEN save_documents_metadata(be, st, c.docs)
    ELSE update_document_processing_status(be, st, CHOOSE k \in c.keys : TRUE,
                                           c.status, c.err, c.cc)

\* both passes start on a store that holds a PENDING record for every document
PassesInit ==
    /\ now = 1
    /\ backend \in {"json", "sqlite"}
    /\ parsers = <<{".pdf"}>>
    /\ files = [p \in Paths |-> 1]
    /\ store = save_documents_metadata(backend, <<>>, list_documents(files, {".pdf", ".txt"}))
    /\ vectors = [p \in Paths |-> NoVectors]
    /\ attempts = 0
    /\ pc = "idle"
    /\ call = "none"
    /\ cls = NoCls
    /\ queue = <<>>
    /\ cur = NoCur
    /\ ppd = NoPpd
    /\ op = NoOp
    /\ passes = NoPasses
    /\ twin = <<>>

\* a pass enters a call on the JSON store: _read_json
PassRead(i) ==
    \E c \in PassCalls :
        /\ backend = "json"
        /\ passes[i].pc = "idle"
        /\ passes[i].n < MaxCalls
        /\ passes' = [passes EXCEPT ![i] = [@ EXCEPT !.pc = "read", !.n = @ + 1, !.call = c,
                                                    !.data = store, !.stale = FALSE]]
        /\ UNCHANGED <<twin, now, op, backend, parsers, files, store, vectors, attempts, pc,
                       call, cls, queue, cur, ppd>>

\* the pass leaves the call on the JSON store: _write_json of what it read,
\* with its own change applied
PassWrite(i) ==
    /\ passes[i].pc = "read"
    /\ store' = CallResult("json", passes[i].data, passes[i].call)
    /\ passes' = [j \in {1, 2} |->
                    IF j = i
                    THEN [passes[j] EXCEPT
                            !.pc = "idle", !.data = <<>>, !.stale = FALSE,
                            !.lost = @ \/ \E k \in DOMAIN store \ passes[i].call.keys :
                                              store'[k] # store[k]]
                    ELSE [passes[j] EXCEPT !.stale = @ \/ passes[j].pc = "read"]]
    /\ UNCHANGED <<twin, now, op, backend, parsers, files, vectors, attempts, pc, call, cls,
                   queue, cur, ppd>>

\* a pass makes a call on the SQLite store: one transaction
PassCall(i) ==
    \E c \in PassCalls :
        /\ backend = "sqlite"
        /\ passes[i].n < MaxCalls
        /\ store' = CallResult("sqlite", store, c)
        /\ passes' = [passes EXCEPT ![i] = [@ EXCEPT !.n = @ + 1, !.call = c]]
        /\ UNCHANGED <<twin, now, op, backend, parsers, files, vectors, attempts, pc, call, cls,
                       queue, cur, ppd>>

PassesNext == \E i \in {1, 2} : PassRead(i) \/ PassWrite(i) \/ PassCall(i)

\* ------------------------- the two metadata stores given the same calls
\* store is the JsonMetadataStore and twin the SQLiteMetadataStore
TwinInit ==
    /\ StoreInit
    /\ backend = "json"

\* save_documents_metadata called on both stores
TwinSave ==
    \E docs \in StoreBatches :
        /\ op.n < MaxOps
        /\ store' = save_documents_metadata("json", store, docs)
        /\ twin' = save_documents_metadata("sqlite", twin, docs)
        /\ op' = [OpCall("save") EXCEPT !.docs = docs, !.keys = {d.source_path : d \in docs}]
        /\ UNCHANGED <<passes, now, backend, parsers, files, vectors, attempts, pc, call, cls, queue, cur, ppd>>

\* delete_documents_metadata called on both stores
TwinDelete ==
    \E keys \in (SUBSET Paths) \ {{}} :
        /\ op.n < MaxOps
        /\ store' = delete_documents_metadata(store, keys)
        /\ twin' = delete_documents_metadata(twin, keys)
        /\ op' = [OpCall("delete") EXCEPT !.keys = keys]
        /\ UNCHANGED <<passes, now, backend, parsers, files, vectors, attempts, pc, call, cls, queue, cur, ppd>>

\* update_document_processing_status called on both stores
TwinUpdateStatus ==
    \E k \in Paths, status \in {COMPLETED, FAILED}, cc \in {-1} \cup StoreChunkCounts :
      LET err == IF status = FAILED THEN "Failed to process" ELSE ""
      IN
        /\ op.n < MaxOps
        /\ store' = update_document_processing_status("json", store, k, status, err, cc)
        /\ twin' = update_document_processing_status("sqlite", twin, k, status, err, cc)
        /\ op' = [OpCall("update") EXCEPT !.keys = {k}, !.status = status,
                                          !.err = err, !.cc = cc]
        /\ UNCHANGED <<passes, now, backend, parsers, files, vectors, attempts, pc, call, cls, queue, cur, ppd>>

TwinNext ==
    \/ Tick
    \/ TwinSave
    \/ TwinDelete
    \/ TwinUpdateStatus

\* the same sequence of calls made on a JSON store and on a SQLite store
TwinSpec == TwinInit /\ [][TwinNext]_vars

\* two ingestion passes running against the same metadata store
PassesSpec == PassesInit /\ [][PassesNext]_vars

TypeOK ==
    /\ backend \in {"json", "sqlite"}
    /\ DOMAIN store \subseteq Paths
    /\ \A k \in DOMAIN store :
          /\ store[k].vector_status \in {PENDING, PROCESSING, COMPLETED, FAILED, SKIPPED}
          /\ store[k].is_deleted \in {0, 1}
          /\ store[k].chunk_count \in ChunkCounts

\* ------------------------------------------------------------------ claims
\* the source paths of a set of documents
K(docs) == {d.source_path : d \in docs}

\* the record of key k is stored and not soft-deleted
Live(st, k) == k \in DOMAIN st /\ st[k].is_deleted = 0

\* the positions of _process_single_document after its PROCESSING status update
MidPipeline == {"p_extract", "p_replace", "p_add", "p_complete"}

\* this step is update_metadata, and it upserts the record of key k
UpsertStep(k) ==
    /\ pc = "discovered"
    /\ pc' = "updated"
    /\ k \in K(cls.new) \cup K(cls.updated)

\* _process_single_document has just returned after its COMPLETED status update
JustCompleted ==
    /\ pc \in {"done", "p_begin"}
    /\ cur.calls # <<>>
    /\ cur.calls[Len(cur.calls)] = "status:completed"

\* run_full_ingestion has classified the documents (or its classifier has raised)
Classified == call = "run_full_ingestion" /\ pc # "idle"

\* C1: every change of the vector_status of a live record is PENDING to
\* PROCESSING, PROCESSING to COMPLETED, PROCESSING to FAILED, or a reset to
\* PENDING made by the upsert of update_metadata.
C1_StatusTransitions ==
    [][\A k \in Paths :
          (/\ k \in DOMAIN store
           /\ Live(store, k) \/ Live(store', k)
           /\ store'[k].vector_status # store[k].vector_status)
          => \/ store[k].vector_status = PENDING /\ store'[k].vector_status = PROCESSING
             \/ store[k].vector_status = PROCESSING /\ store'[k].vector_status = COMPLETED
             \/ store[k].vector_status = PROCESSING /\ store'[k].vector_status = FAILED
             \/ store'[k].vector_status = PENDING /\ UpsertStep(k)]_vars

\* C2: when process_pending_documents returns, it has loaded exactly the
\* records that were live and PENDING when it was called, and none of them is
\* still PENDING: each is COMPLETED or FAILED.
C2_AllPendingProcessed ==
    (ppd.ran /\ ~ppd.raised /\ pc = "done")
    => /\ ppd.loaded = ppd.start
       /\ \A k \in ppd.start : store[k].vector_status \in {COMPLETED, FAILED}

\* C3: the PROCESSING status is in the store before the file check, the parser
\* lookup, the parse, the chunking and every vector-store call of a document,
\* and a crash at any of these steps leaves the record PROCESSING.
C3_ProcessingWrittenFirst ==
    [][/\ pc' \in MidPipeline
          => /\ cur'.calls[1] = "status:processing"
             /\ Live(store', cur'.path)
             /\ store'[cur'.path].vector_status = PROCESSING
       /\ (pc \in MidPipeline /\ pc' = "idle")
          => /\ Live(store', cur.path)
             /\ store'[cur.path].vector_status = PROCESSING]_vars

\* C3 witness: the process has died after a batch of vectors was inserted, and
\* the record is left PROCESSING.
C3_Witness ==
    /\ pc = "idle"
    /\ \E k \in Paths :
          /\ Live(store, k)
          /\ store[k].vector_status = PROCESSING
          /\ vectors[k].batches # {}

\* C4: process_pending_documents never raises, and when it returns every
\* document that was PENDING has been attempted, a failing one ending FAILED
\* with the error text in vector_error.
C4_BatchSurvivesFailures ==
    ppd.ran
    => /\ ~ppd.raised
       /\ pc = "done"
          => \A k \in ppd.start :
                /\ store[k].vector_status # PENDING
                /\ store[k].vector_status = FAILED => store[k].vector_error # ""

\* C5: a FAILED record stays FAILED in every step taken while the source lists
\* its document with a last_modified not greater than the stored one, and it
\* leaves FAILED only for PENDING, through the upsert of a document classified
\* updated (live record) or new (soft-deleted record).
C5_NoImplicitRetry ==
    [][\A k \in Paths :
          (k \in DOMAIN store /\ store[k].vector_status = FAILED)
          => /\ store'[k].vector_status # FAILED
                => /\ store'[k].vector_status = PENDING
                   /\ pc = "discovered" /\ pc' = "updated"
                   /\ IF Live(store, k) THEN k \in K(cls.updated) ELSE k \in K(cls.new)
             /\ (/\ Live(store, k)
                 /\ files[k] # 0
                 /\ files[k] <= store[k].last_modified[2])
                => Live(store', k) /\ store'[k].vector_status = FAILED]_vars

\* C5 witness: a later run_full_ingestion call has been made while the source
\* lists the document of a FAILED record unmodified, and the record is FAILED.
C5_Witness ==
    /\ call = "run_full_ingestion"
    /\ pc \in {"done", "raised"}
    /\ \E k \in Paths :
          /\ Live(store, k)
          /\ store[k].vector_status = FAILED
          /\ files[k] # 0
          /\ files[k] <= store[k].last_modified[2]

\* C6: a run_full_ingestion call classifies, upserts the new and updated
\* documents as PENDING, soft-deletes the deleted records, and then processes
\* all the PENDING records.
C6_FullRunPhases ==
    /\ (call = "run_full_ingestion" /\ pc = "updated")
       => /\ \A k \in K(cls.new) \cup K(cls.updated) :
                Live(store, k) /\ store[k].vector_status = PENDING
          /\ \A k \in K(cls.deleted) : k \in DOMAIN store /\ store[k].is_deleted = 1
    /\ (call = "run_full_ingestion" /\ pc \in {"done", "raised"})
       => /\ ~cls.raised
          /\ ppd.ran /\ ~ppd.raised
          /\ \A k \in ppd.start : store[k].vector_status \in {COMPLETED, FAILED}

\* C7: the classifier returns four pairwise disjoint lists: new, updated and
\* unchanged together have the keys of the source listing, deleted has the
\* stored keys that are not listed, and new and deleted share no key.
C7_Partition ==
    Classified
    => /\ ~cls.raised
       /\ K(cls.new) \cup K(cls.updated) \cup K(cls.unchanged) = K(cls.source)
       /\ K(cls.new) \cap K(cls.updated) = {}
       /\ K(cls.new) \cap K(cls.unchanged) = {}
       /\ K(cls.updated) \cap K(cls.unchanged) = {}
       /\ K(cls.deleted) = K(cls.db) \ K(cls.source)
       /\ K(cls.deleted) \cap (K(cls.new) \cup K(cls.updated) \cup K(cls.unchanged)) = {}

\* C8: a document listed and stored is classified updated when its listed
\* last_modified is greater than the stored one, and unchanged otherwise.
C8_UpdatedIffNewer ==
    Classified
    => \A s \in cls.source, e \in cls.db :
          s.source_path = e.source_path
          => IF s.last_modified[2] > e.last_modified[2]
             THEN s \in cls.updated /\ s \notin cls.unchanged
             ELSE s \in cls.unchanged /\ s \notin cls.updated

\* C9: the classifier does not raise, whatever the source listing and the
\* loaded records are.
C9_ClassifierNeverRaises == Classified => ~cls.raised

\* C10: after a document completes ingestion, the vectors stored for its
\* source path are exactly the batches of that ingestion's chunks: nothing
\* stale, nothing missing.
C10_ExactVectors ==
    JustCompleted
    => vectors[cur.path] = [stale |-> FALSE, batches |-> 1 .. BatchCount(cur.n)]

\* the calls made so far by _process_single_document include c
HasCalled(c) == \E i \in DOMAIN cur.calls : cur.calls[i] = c

\* C11: when the check for, or the deletion of, the prior vectors of a source
\* path fails, no vectors are inserted for the document in that attempt and
\* its record ends FAILED; vectors of an earlier ingestion and of a later one
\* are never stored together for one source path.
C11_NoStaleWithNew ==
    /\ \A p \in Paths : ~vectors[p].stale
    /\ (HasCalled("document_exists:search_raised") \/ HasCalled("delete_vectors_by_source:raised"))
       => /\ ~HasCalled("add_documents")
          /\ pc \in {"done", "p_begin"} => store[cur.path].vector_status = FAILED

\* the last call made by _process_single_document
LastCall == cur.calls[Len(cur.calls)]

\* C12: a document that fails before the vector-store step (file missing, no
\* capable parser, parse raising, no chunks) ends FAILED with a non-empty
\* vector_error, which is the 'no extractable text' message in the zero-chunk
\* case (when the store takes that status update at once), keeps chunk_count
\* 0, and the vector store is not touched; only a document with its file, a
\* parser and at least one chunk reaches the vector-store step.
C12_FailsBeforeVectorStep ==
    [][/\ (pc = "p_extract" /\ pc' \in {"done", "p_begin"})
          => /\ store'[cur.path].vector_status = FAILED
             /\ store'[cur.path].vector_error # ""
             /\ store'[cur.path].chunk_count = 0
             /\ vectors' = vectors
             /\ (\A i \in DOMAIN cur'.calls :
                     cur'.calls[i] \in {"status:processing", "exists", "get_parser", "parse",
                                        "chunk", "status:failed", "status:failed:raised"})
             /\ (cur'.calls[Len(cur'.calls) - 1] = "chunk")
                => store'[cur.path].vector_error = "contains no extractable text"
       /\ (pc = "p_extract" /\ pc' = "p_replace")
          => /\ files[cur.path] # 0
             /\ get_parser(parsers, Ext(cur.path)) # 0
             /\ cur'.n >= 1]_vars

\* C12 witness: one document has failed for want of a parser and another
\* because it has no extractable text.
C12_Witness ==
    /\ pc = "done"
    /\ \E j, k \in DOMAIN store :
          /\ store[j].vector_status = FAILED
          /\ store[j].vector_error = "No parser available"
          /\ store[k].vector_status = FAILED
          /\ store[k].vector_error = "contains no extractable text"
          /\ store[k].chunk_count = 0

\* C13: when the insertion of a batch of a document's chunks fails, the loop
\* of add_documents stops (no later batch is inserted), the record ends FAILED
\* with a non-empty vector_error, and its chunk_count is not set to the number
\* of chunks.
C13_BatchFailureAborts ==
    [][/\ (pc = "p_add" /\ pc' \notin {"p_add", "p_complete", "idle"})
          => /\ pc' \in {"done", "p_begin", "raised"}
             /\ cur'.calls[Len(cur'.calls) - 1] = "add_documents:raised"
             /\ vectors' = vectors
             /\ pc' # "raised"
                => /\ store'[cur.path].vector_status = FAILED
                   /\ store'[cur.path].vector_error # ""
                   /\ store'[cur.path].chunk_count # cur.n
       /\ (\E i \in DOMAIN cur'.calls : cur'.calls[i] = "add_documents:raised")
          => pc' \notin MidPipeline
       /\ (\E p \in Paths : vectors'[p].batches \ vectors[p].batches # {})
          => /\ pc = "p_add"
             /\ ~HasCalled("add_documents:raised")
             /\ vectors'[cur.path].batches = 1 .. (cur.batch + 1)]_vars

\* C13 witness: the second batch of a document has failed after the first was
\* inserted, and the record is FAILED.
C13_Witness ==
    /\ pc \in {"done", "p_begin"}
    /\ cur.calls # <<>>
    /\ LastCall = "status:failed"
    /\ HasCalled("add_documents")
    /\ HasCalled("add_documents:raised")
    /\ BatchCount(cur.n) = 2
    /\ vectors[cur.path].batches = {1}
    /\ store[cur.path].vector_status = FAILED

\* C14: every live COMPLETED record has the number of chunks of its latest
\* ingestion (at least 1) as chunk_count, and every live record with another
\* status has chunk_count 0.
C14_ChunkCountMeaning ==
    [][/\ \A k \in DOMAIN store' :
             Live(store', k)
             => IF store'[k].vector_status = COMPLETED
                THEN store'[k].chunk_count >= 1
                ELSE store'[k].chunk_count = 0
       /\ (/\ pc = "p_complete"
           /\ cur'.calls # <<>>
           /\ cur'.calls[Len(cur'.calls)] = "status:completed")
          => /\ store'[cur.path].vector_status = COMPLETED
             /\ store'[cur.path].chunk_count = cur.n
       /\ \A k \in DOMAIN store :
             (/\ Live(store, k) /\ Live(store', k)
              /\ store[k].vector_status = COMPLETED
              /\ store'[k].vector_status = COMPLETED)
             => store'[k].chunk_count = store[k].chunk_count]_vars

\* C14 witness: a document of two batches has been ingested, and another
\* record is live with another status.
C14_Witness ==
    /\ pc = "done"
    /\ cur.calls # <<>>
    /\ LastCall = "status:completed"
    /\ BatchCount(cur.n) = 2
    /\ store[cur.path].chunk_count = cur.n
    /\ \E k \in DOMAIN store :
          Live(store, k) /\ store[k].vector_status # COMPLETED /\ store[k].chunk_count = 0

\* this step is the n-th direct call on the metadata store, a call of `name`
StoreCall(name) == op'.n = op.n + 1 /\ op'.name = name

\* a stored record without its modification stamp
SansStamp(r) == [r EXCEPT !.updated_at = 0]

\* C15: save_documents_metadata on a key that already has a record, live or
\* soft-deleted, overwrites hash, size, last_modified and status with the
\* incoming values, sets chunk_count to 0 whatever the incoming record
\* carries and clears the soft-delete flag, and the same upsert applied a
\* second time leaves the record as the first left it, updated_at aside;
\* in both stores.
C15_UpsertResets ==
    [][(StoreCall("save") /\ ~op'.raised) =>
          \A d \in op'.docs :
              d.source_path \in DOMAIN store =>
                  LET k == d.source_path
                      again == save_documents_metadata(backend, store', op'.docs)
                  IN /\ store'[k].file_hash = d.file_hash
                     /\ store'[k].file_size = d.file_size
                     /\ store'[k].last_modified = isoformat(d.last_modified)
                     /\ store'[k].vector_status = ValueOf(d.vector_status)
                     /\ store'[k].chunk_count = 0
                     /\ store'[k].is_deleted = 0
                     /\ SansStamp(again[k]) = SansStamp(store'[k])]_vars

\* C16: when save_documents_metadata fails part-way through a batch, on a
\* record of the batch or while writing, the error reaches the caller and the
\* store holds afterwards what it held before the call: no record of the
\* batch is written and no existing record is lost; in both stores.
C16_SaveAtomic ==
    [][(StoreCall("save") /\ op'.raised) => store' = store]_vars

\* the keys load_documents_metadata is to return: the records that are not
\* soft-deleted and satisfy every filter that is given
Selected(st, vs, exts, stype) ==
    {k \in DOMAIN st :
        /\ st[k].is_deleted = 0
        /\ (~Falsy(vs) => st[k].vector_status = ValueOf(vs))
        /\ (~Falsy(stype) => LOCAL_FILE = ValueOf(stype))
        /\ (exts # {} => st[k].file_extension \in exts)}

\* C17: load_documents_metadata returns exactly the records that are not
\* soft-deleted and satisfy every supplied filter (vector_status,
\* source_type, extensions) at once, and all live records when no filter is
\* given, for every combination of filters and for the filter values the
\* orchestrator and the classifier pass.
C17_LoadSelects ==
    op.name = "load" =>
        /\ ~op.raised
        /\ {d.source_path : d \in op.result} = Selected(store, op.vs, op.exts, op.stype)

\* every record the call soft-deletes is stored and soft-deleted already
DuplicateDelete(st, keys) == \A k \in keys : k \in DOMAIN st /\ st[k].is_deleted = 1

\* C18: a soft-deleted record is excluded from every later
\* load_documents_metadata call whatever filters are given, and
\* soft-deleting a record that is soft-deleted already raises no error and
\* changes no state of the store.
C18_SoftDeleteIdempotent ==
    [][/\ StoreCall("load") =>
             \A d \in op'.result : store[d.source_path].is_deleted = 0
       /\ (StoreCall("delete") /\ DuplicateDelete(store, op'.keys)) =>
             ~op'.raised /\ store' = store]_vars

\* the key a call of update_document_processing_status names
UpdatedKey(o) == CHOOSE k \in o.keys : TRUE

\* the fields of a stored record that a status update is not to touch
Untouched(r) ==
    [file_hash |-> r.file_hash, file_extension |-> r.file_extension,
     file_size |-> r.file_size, last_modified |-> r.last_modified,
     is_deleted |-> r.is_deleted]

\* C19: update_document_processing_status changes only vector_status,
\* vector_error, chunk_count (only when a chunk_count is supplied) and
\* updated_at of the single record its key identifies; every other field of
\* that record, is_deleted included, and every other record stay as they were.
C19_UpdateFrame ==
    [][StoreCall("update") =>
          LET k == UpdatedKey(op')
          IN /\ DOMAIN store' = DOMAIN store
             /\ \A j \in DOMAIN store \ {k} : store'[j] = store[j]
             /\ k \in DOMAIN store =>
                   /\ Untouched(store'[k]) = Untouched(store[k])
                   /\ (op'.cc = -1 => store'[k].chunk_count = store[k].chunk_count)]_vars

\* a soft-deleted record has had its status updated while another record is stored
C19_Witness ==
    /\ op.name = "update"
    /\ Cardinality(DOMAIN store) = 2
    /\ LET k == UpdatedKey(op)
       IN /\ store[k].is_deleted = 1
          /\ store[k].vector_status = FAILED
          /\ store[k].vector_error # ""

\* C20: update_document_processing_status for a key that has no record
\* raises nothing, creates no record and leaves the store as it was.
C20_UpdateAbsentKey ==
    [][(StoreCall("update") /\ UpdatedKey(op') \notin DOMAIN store) =>
          ~op'.raised /\ store' = store]_vars

\* the status of a key without a record has been updated in a store that holds
\* another record
C20_Witness ==
    /\ op.name = "update"
    /\ UpdatedKey(op) \notin DOMAIN store
    /\ store # <<>>

\* C21: across any sequence of save, update-status and soft-delete calls and
\* of full ingestion runs no record is ever removed from the metadata store:
\* the set of stored keys never shrinks, and a soft-deleted record stays
\* stored with its flag set (until a save of its key revives it).
C21_NeverHardDeleted ==
    [][\A k \in DOMAIN store :
          /\ k \in DOMAIN store'
          /\ (store[k].is_deleted = 1 /\ store'[k].is_deleted = 0)
                => \/ StoreCall("save") /\ k \in op'.keys
                   \/ UpsertStep(k)]_vars

\* the status updates of the try block of _process_single_document that the
\* metadata store can fail
RaisedWrites == {"status:processing:raised", "status:completed:raised", "status:failed:raised"}

\* in this step of _process_single_document a status update made inside the
\* try block raises
StoreWriteRaises ==
    /\ pc \in {"p_begin"} \cup MidPipeline
    /\ pc' # "idle"
    /\ cur'.calls # <<>>
    /\ \E i \in DOMAIN cur'.calls :
          /\ cur'.calls[i] \in RaisedWrites
          /\ (pc = "p_begin" \/ i > Len(cur.calls))

\* C22: a metadata-store failure during a document's processing (the
\* PROCESSING or the COMPLETED status update raising, for example) is not
\* swallowed into a FAILED status: it leaves process_pending_documents and
\* stops the run, while the errors of the document's own pipeline are never
\* raised to the caller.
C22_StoreErrorsPropagate ==
    [][/\ StoreWriteRaises => (pc' = "raised" /\ store' = store)
       /\ (pc \in {"p_begin"} \cup MidPipeline /\ pc' = "raised") => StoreWriteRaises]_vars

\* no _process_single_document call is working on the record of key k
Parked(k) == ~(pc \in MidPipeline /\ cur.path = k)

\* C23: a record left in PROCESSING by a crash is never selected by
\* process_pending_documents; it stays PROCESSING through any number of
\* later full ingestion runs while the source lists its document unmodified,
\* and it leaves PROCESSING only through an upsert, its document being
\* classified updated, or new after a soft-delete.
C23_ProcessingParked ==
    [][\A k \in Paths :
          (k \in DOMAIN store /\ store[k].vector_status = PROCESSING /\ Parked(k))
          => /\ store'[k].vector_status # PROCESSING
                => /\ store'[k].vector_status = PENDING
                   /\ UpsertStep(k)
                   /\ IF Live(store, k) THEN k \in K(cls.updated) ELSE k \in K(cls.new)
             /\ (queue' # queue => \A i \in DOMAIN queue' : queue'[i] # k)
             /\ (ppd' # ppd => k \notin ppd'.loaded)
             /\ (/\ Live(store, k)
                 /\ files[k] # 0
                 /\ files[k] <= store[k].last_modified[2])
                => Live(store', k) /\ store'[k].vector_status = PROCESSING]_vars

\* a full ingestion run has ended while the record of a listed, unmodified
\* document is parked in PROCESSING
C23_Witness ==
    /\ call = "run_full_ingestion"
    /\ pc \in {"done", "raised"}
    /\ \E k \in Paths :
          /\ Live(store, k)
          /\ store[k].vector_status = PROCESSING
          /\ files[k] # 0
          /\ files[k] <= store[k].last_modified[2]

\* in this step pass i finishes a store call: the write of the JSON store or
\* the transaction of the SQLite store
FinishesCall(i) ==
    \/ passes[i].pc = "read" /\ passes'[i].pc = "idle"
    \/ backend = "sqlite" /\ passes'[i].n = passes[i].n + 1

\* the step changes a record that the call of pass i does not name
OverwritesOthers(i) ==
    \E k \in DOMAIN store \ passes'[i].call.keys : store'[k] # store[k]

\* C24: with a single ingestion pass no write to the metadata store is ever
\* lost; with two passes interleaved on the same store a lost update is
\* reachable: a write made by one pass between the other pass's read and
\* write of the store is overwritten. A call overwrites a record it does not
\* name only when the other pass has written since the call read the store.
C24_LostOnlyWhenInterleaved ==
    [][\A i \in {1, 2} :
          (FinishesCall(i) /\ OverwritesOthers(i)) => passes[i].stale]_vars

\* a pass has overwritten what the other pass wrote between its read and its write
C24_Witness ==
    \E i \in {1, 2} : passes[i].lost /\ passes[3 - i].n > 0

\* the documents the source lists
Listed == K(list_documents(files, get_suported_extentions(parsers)))

\* the store holds what the update_metadata of a run on the present listing
\* leaves: the live records are those of the listed documents, with the
\* last_modified the source reports
Synced ==
    /\ Listed # {}
    /\ Listed = {k \in DOMAIN store : store[k].is_deleted = 0}
    /\ \A k \in Listed : store[k].last_modified = Str(files[k])

\* the fields of the records that a run on an unchanged listing is to leave alone
Ingested(st) ==
    [k \in DOMAIN st |-> <<st[k].vector_status, st[k].chunk_count, st[k].is_deleted>>]

\* C25: when the source listing has not changed since the preceding
\* run_full_ingestion call, the next call classifies every listed document
\* unchanged (new, updated and deleted are empty) and changes no record's
\* status, chunk_count or soft-delete flag.
C25_RerunChangesNothing ==
    [][/\ (pc = "idle" /\ call' = "run_full_ingestion" /\ Synced)
            => /\ ~cls'.raised
               /\ cls'.new = {} /\ cls'.updated = {} /\ cls'.deleted = {}
               /\ K(cls'.unchanged) = Listed
       /\ (call = "run_full_ingestion" /\ Synced) => Ingested(store') = Ingested(store)]_vars

\* the listed documents whose record is soft-deleted
Reappeared == {k \in Listed : k \in DOMAIN store /\ store[k].is_deleted = 1}

\* C26: a document whose record was soft-deleted and which is listed again is
\* classified new; the upsert revives the same record (flag cleared, status
\* PENDING, chunk_count 0), there still being one record for its key; and
\* the document is ingested again in that run.
C26_RevivedAndIngested ==
    [][/\ (pc = "idle" /\ call' = "run_full_ingestion" /\ Reappeared # {})
            => (~cls'.raised /\ Reappeared \subseteq K(cls'.new))
       /\ (pc = "discovered" /\ pc' = "updated")
            => \A k \in cls.reappeared :
                  /\ DOMAIN store' = DOMAIN store \cup K(cls.new)
                  /\ store'[k].is_deleted = 0
                  /\ store'[k].vector_status = PENDING
                  /\ store'[k].chunk_count = 0
       /\ (call' = "run_full_ingestion" /\ pc' = "done")
            => \A k \in cls'.reappeared :
                  Live(store', k) /\ store'[k].vector_status \in {COMPLETED, FAILED}]_vars

\* C27: soft-deleting a record makes no vector-store call: the step that sets
\* is_deleted leaves every vector as it was, and through a whole
\* run_full_ingestion the vectors of the documents classified deleted are
\* never changed, so a COMPLETED document that disappeared keeps its vectors.
C27_SoftDeleteKeepsVectors ==
    [][/\ (\E k \in DOMAIN store : Live(store, k) /\ ~Live(store', k)) => vectors' = vectors
       /\ call' = "run_full_ingestion"
            => \A k \in K(cls'.deleted) : vectors'[k] = vectors[k]]_vars

\* a full run has ended after soft-deleting a COMPLETED document that has vectors
C27_Witness ==
    /\ call = "run_full_ingestion"
    /\ pc = "done"
    /\ \E k \in K(cls.deleted) :
          /\ store[k].is_deleted = 1
          /\ store[k].vector_status = COMPLETED
          /\ vectors[k].batches # {}

\* the step writes FAILED for the document _process_single_document is on
EndsFailed ==
    /\ cur' # cur
    /\ cur'.calls # <<>>
    /\ cur'.calls[Len(cur'.calls)] = "status:failed"

\* C28: ingestion is all-or-nothing for the vector store: when an attempt ends
\* FAILED, no batch of that attempt is stored, so the vectors of its path are
\* those it had before the attempt or, when the attempt deleted them, none.
C28_AllOrNothing ==
    [][EndsFailed => (cur'.batch = 0 \/ vectors'[cur'.path] = NoVectors)]_vars

\* C29: the two stores are observationally equivalent: after the same calls,
\* load_documents_metadata returns the same records with the same field
\* values from the JSON store and from the SQLite store, under every filter
\* both stores accept.
C29_StoresEquivalent ==
    \A vs \in {NoneVal, Str(PENDING), Str(COMPLETED), Str(FAILED)},
       exts \in StoreExtFilters, stype \in StoreTypeFilters :
        load_documents_metadata("json", store, vs, exts, stype)
            = load_documents_metadata("sqlite", twin, vs, exts, stype)

\* C30: a live record has a non-empty vector_error exactly when its
\* vector_status is FAILED: no record that is PENDING, PROCESSING or COMPLETED
\* carries the error text of an earlier failure.
C30_ErrorIffFailed ==
    \A k \in DOMAIN store :
        Live(store, k) => (store[k].vector_error # "" <=> store[k].vector_status = FAILED)


====
